---- MODULE Spec2Model ----
(***************************************************************************)
(* Data preparation of the keyphrase-extraction pipeline                   *)
(* (src/utils/preprocessing.py, driven by src/SimpleRNN.py).               *)
(*                                                                         *)
(* Positions are 1-based here: Python position p is position p+1 below.    *)
(* A Python dict of one split is the sequence of its values in insertion   *)
(* order, the key being the position.  None and the empty dict are both    *)
(* falsy in Python and are both written <<>>.                              *)
(***************************************************************************)
EXTENDS Integers, Sequences, FiniteSets, TLC

\* ------------------------------------------------------------------ bounds
Tokens == {"a", "b"}
MaxDocLen == 3
MaxAnswerTokens == 5
MaxPadLen == 2
MaxVocab == 3
EmbeddingsSize == 2
MaxRows == 2
MaxAnswers == 1
MaxCands == 2
MaxLabel == 2
NumModelClasses == 3

SeqsUpTo(S, n) == UNION {[1..m -> S] : m \in 0..n}
NonEmptySeqsUpTo(S, n) == UNION {[1..m -> S] : m \in 1..n}

Documents == SeqsUpTo(Tokens, MaxDocLen)

\* the lists of non-empty keyphrases that hold at most t tokens in all
RECURSIVE ListsWithin(_)
ListsWithin(t) == {<<>>} \cup UNION {{<<kp>> \o rest : rest \in ListsWithin(t - Len(kp))} : kp \in NonEmptySeqsUpTo(Tokens, t)}

AnswerLists == ListsWithin(MaxAnswerTokens)

\* make_sequential, one document: the locals of the loops of lines 482-517.
\* answers_in (the list as the caller passed it) and last_len (per position,
\* the token count of the keyphrase that wrote its label last, 0 = never
\* written) are history variables.
VARIABLES pc, document, answers, answers_in, doc_answers_seq, k, appearances, a, w, last_len

\* prepare_sequential: its parameters and its locals, by their names in the
\* source.  word_index is the fitted Dictionary, fit_calls counts the calls
\* of fit_on_texts.  A local that is not assigned yet is <<>>.
VARIABLES train_doc, train_answer, test_doc, test_answer, val_doc, val_answer,
          max_document_length, max_vocabulary_size, stem_test,
          train_answer_seq, test_answer_seq, val_answer_seq, documents_full,
          train_x, train_y, test_x, test_y, val_x, val_y,
          word_index, fit_calls, num_words, embeddings_index, embedding_matrix

\* prepare_answer and prepare_answer_2: the parameters and locals they have
\* beyond those of prepare_sequential
VARIABLES train_candidates, test_candidates, val_candidates, max_answer_length,
          train_q, train_a, test_q, test_a, val_q, val_a,
          val_q_balanced, val_a_balanced, val_y_balanced, wrong_candidates

paVars == <<train_candidates, test_candidates, val_candidates, max_answer_length, train_q, train_a, test_q, test_a, val_q, val_a, val_q_balanced, val_a_balanced, val_y_balanced, wrong_candidates>>

\* make_categorical: its argument and its result
VARIABLES x, new_x

mcVars == <<x, new_x>>
msVars == <<document, answers, answers_in, doc_answers_seq, k, appearances, a, w, last_len>>
psParams == <<train_doc, test_doc, val_doc, max_document_length, max_vocabulary_size, stem_test>>
psAnswers == <<train_answer, test_answer, val_answer>>
psSeqs == <<train_answer_seq, test_answer_seq, val_answer_seq>>
psDict == <<documents_full, word_index, fit_calls>>
psTrain == <<train_x, train_y>>
psTest == <<test_x, test_y>>
psVal == <<val_x, val_y>>
psEmb == <<num_words, embeddings_index, embedding_matrix>>
psVars == <<psParams, psAnswers, psSeqs, psDict, psTrain, psTest, psVal, psEmb>>
vars == <<pc, msVars, psVars, mcVars, paVars>>

\* ------------------------------------------------- make_sequential helpers
Zeros(n) == [i \in 1..n |-> 0]

RECURSIVE MaxLenFrom(_, _)
MaxLenFrom(s, i) == IF i > Len(s) THEN 0 ELSE LET m == MaxLenFrom(s, i + 1) IN IF Len(s[i]) > m THEN Len(s[i]) ELSE m

OfLen(s, n) == SelectSeq(s, LAMBDA e : Len(e) = n)

RECURSIVE Buckets(_, _, _)
Buckets(s, n, top) == IF n > top THEN <<>> ELSE OfLen(s, n) \o Buckets(s, n + 1, top)

\* list.sort(key=len): stable, ascending by token count
sort_unsorted(s) == s
sort_ties_reversed(s) == Buckets([i \in 1..Len(s) |-> s[Len(s) + 1 - i]], 0, MaxLenFrom(s, 1))
sort_by_len(s) == Buckets(s, 0, MaxLenFrom(s, 1))

\* appearances = [i for i, word in enumerate(document) if word == answer[0]]
RECURSIVE AppearancesFrom(_, _, _)
AppearancesFrom(doc, answer, i) == IF i > Len(doc) THEN <<>> ELSE (IF doc[i] = answer[1] THEN <<i>> ELSE <<>>) \o AppearancesFrom(doc, answer, i + 1)

first_appearance(doc, answer) == LET s == AppearancesFrom(doc, answer, 1) IN IF s = <<>> THEN <<>> ELSE <<s[1]>>
Appearances(doc, answer) == AppearancesFrom(doc, answer, 1)

\* the loop "for i in range(1, len(answer))": is_kp is assigned afresh in
\* every iteration, so the value it has after the loop is the last one
\* "We reached the end of the document": is_kp = False
is_kp_kept_past_end == TRUE
is_kp_past_end == FALSE

RECURSIVE is_kp_loop(_, _, _, _, _)
is_kp_loop(doc, answer, idx, i, is_kp) == IF i > Len(answer) - 1 THEN is_kp ELSE is_kp_loop(doc, answer, idx, i + 1, IF idx + i <= Len(doc) THEN answer[i + 1] = doc[idx + i] ELSE is_kp_past_end)

is_kp_at(doc, answer, idx) == is_kp_loop(doc, answer, idx, 1, TRUE)

\* doc_answers_seq[idx] = 1 ; doc_answers_seq[idx + i] = 2
mark_always_inside(off) == 2
mark_value(off) == IF off = 0 THEN 1 ELSE 2

\* the two assignments of lines 510-512 for one accepted position
mark_kp(seq, idx, n) == [p \in 1..Len(seq) |-> IF p \in idx..(idx + n - 1) THEN mark_value(p - idx) ELSE seq[p]]

\* "for idx in appearances" of one keyphrase
RECURSIVE apply_appearances(_, _, _, _, _)
apply_appearances(doc, answer, apps, i, seq) == IF i > Len(apps) THEN seq ELSE apply_appearances(doc, answer, apps, i + 1, IF is_kp_at(doc, answer, apps[i]) THEN mark_kp(seq, apps[i], Len(answer)) ELSE seq)

\* "for answer in doc_answers_set"
RECURSIVE apply_answers(_, _, _, _)
apply_answers(doc, sorted, j, seq) == IF j > Len(sorted) THEN seq ELSE apply_answers(doc, sorted, j + 1, apply_appearances(doc, sorted[j], Appearances(doc, sorted[j]), 1, seq))

\* the label sequence make_sequential stores in seq_answers[key]
make_sequential_doc(doc, answer_list) == apply_answers(doc, sort_by_len(answer_list), 1, Zeros(Len(doc)))

\* ------------------------------------------------------- make_categorical
RECURSIVE MaxOfRow(_, _)
MaxOfRow(row, i) == IF i > Len(row) THEN -1 ELSE LET m == MaxOfRow(row, i + 1) IN IF row[i] > m THEN row[i] ELSE m

RECURSIVE MaxOfRows(_, _)
MaxOfRows(xs, i) == IF i > Len(xs) THEN -1 ELSE LET m == MaxOfRows(xs, i + 1) IN LET r == MaxOfRow(xs[i], 1) IN IF r > m THEN r ELSE m

\* num_categories = max([item for sublist in x for item in sublist]) + 1
num_categories_no_plus_one(xs) == MaxOfRows(xs, 1)
num_categories(xs) == MaxOfRows(xs, 1) + 1

\* np_utils.to_categorical(doc, num_classes): one row of class indicators
\* per position, the classes being 0 .. num_classes-1
to_categorical(row, n) == [t \in 1..Len(row) |-> [c \in 0..(n - 1) |-> IF c = row[t] THEN 1 ELSE 0]]

make_categorical(xs) == [i \in 1..Len(xs) |-> to_categorical(xs[i], num_categories(xs))]

\* ------------------------------------------------------------ label decoder
\* arg-max over the class axis (the first index holding the maximum)
ArgMax(v) == CHOOSE c \in DOMAIN v : \A d \in DOMAIN v : v[d] <= v[c] /\ (d < c => v[d] < v[c])

undo_sequential(output) == [i \in 1..Len(output) |-> [t \in 1..Len(output[i]) |-> ArgMax(output[i][t])]]

\* a span starts at a begin label, or at an inside label no span runs into,
\* and runs over the inside labels that follow
SpanStart(labels, p) == labels[p] = 1 \/ (labels[p] = 2 /\ (p = 1 \/ labels[p - 1] = 0))

SpanEnd(labels, s) == CHOOSE e \in s..Len(labels) : (\A q \in (s + 1)..e : labels[q] = 2) /\ (e = Len(labels) \/ labels[e + 1] # 2)

LabelSpans(labels) == {<<s, SpanEnd(labels, s)>> : s \in {p \in 1..Len(labels) : SpanStart(labels, p)}}

get_words(doc, labels) == {SubSeq(doc, sp[1], sp[2]) : sp \in LabelSpans(SubSeq(labels, 1, Len(doc)))}

\* ------------------------------------------ make_sequential, one document
MSIdle ==
    /\ document = <<>>
    /\ answers = <<>>
    /\ answers_in = <<>>
    /\ doc_answers_seq = <<>>
    /\ k = 0
    /\ appearances = <<>>
    /\ a = 0
    /\ w = 0
    /\ last_len = <<>>

PSLocalsUnset ==
    /\ train_answer_seq = <<>>
    /\ test_answer_seq = <<>>
    /\ val_answer_seq = <<>>
    /\ documents_full = <<>>
    /\ train_x = <<>>
    /\ train_y = <<>>
    /\ test_x = <<>>
    /\ test_y = <<>>
    /\ val_x = <<>>
    /\ val_y = <<>>
    /\ word_index = <<>>
    /\ fit_calls = 0
    /\ num_words = 0
    /\ embeddings_index = <<>>
    /\ embedding_matrix = <<>>

PSIdle ==
    /\ train_doc = <<>>
    /\ train_answer = <<>>
    /\ test_doc = <<>>
    /\ test_answer = <<>>
    /\ val_doc = <<>>
    /\ val_answer = <<>>
    /\ max_document_length = 0
    /\ max_vocabulary_size = 0
    /\ stem_test = FALSE
    /\ PSLocalsUnset

MCIdle ==
    /\ x = <<>>
    /\ new_x = <<>>

PALocalsUnset ==
    /\ train_q = <<>>
    /\ train_a = <<>>
    /\ test_q = <<>>
    /\ test_a = <<>>
    /\ val_q = <<>>
    /\ val_a = <<>>
    /\ val_q_balanced = <<>>
    /\ val_a_balanced = <<>>
    /\ val_y_balanced = <<>>
    /\ wrong_candidates = <<>>

PAIdle ==
    /\ train_candidates = <<>>
    /\ test_candidates = <<>>
    /\ val_candidates = <<>>
    /\ max_answer_length = 0
    /\ PALocalsUnset

InitMS ==
    /\ PSIdle
    /\ MCIdle
    /\ PAIdle
    /\ pc = "ms_sort"
    /\ document \in Documents
    /\ answers \in AnswerLists
    /\ answers_in = answers
    /\ doc_answers_seq = <<>>
    /\ k = 0
    /\ appearances = <<>>
    /\ a = 0
    /\ w = 0
    /\ last_len = <<>>

ms_sort ==
    /\ pc = "ms_sort"
    /\ answers' = sort_by_len(answers)
    /\ doc_answers_seq' = Zeros(Len(document))
    /\ last_len' = Zeros(Len(document))
    /\ k' = 1
    /\ pc' = "ms_answer"
    /\ UNCHANGED <<document, answers_in, appearances, a, w>>
    /\ UNCHANGED <<psVars, mcVars, paVars>>

ms_next_answer ==
    /\ pc = "ms_answer"
    /\ k <= Len(answers)
    /\ appearances' = Appearances(document, answers[k])
    /\ a' = 1
    /\ pc' = "ms_idx"
    /\ UNCHANGED <<document, answers, answers_in, doc_answers_seq, k, w, last_len>>
    /\ UNCHANGED <<psVars, mcVars, paVars>>

ms_return ==
    /\ pc = "ms_answer"
    /\ k > Len(answers)
    /\ pc' = "ms_done"
    /\ UNCHANGED msVars
    /\ UNCHANGED <<psVars, mcVars, paVars>>

ms_reject ==
    /\ pc = "ms_idx"
    /\ a <= Len(appearances)
    /\ ~is_kp_at(document, answers[k], appearances[a])
    /\ a' = a + 1
    /\ UNCHANGED <<pc, document, answers, answers_in, doc_answers_seq, k, appearances, w, last_len>>
    /\ UNCHANGED <<psVars, mcVars, paVars>>

ms_accept ==
    /\ pc = "ms_idx"
    /\ a <= Len(appearances)
    /\ is_kp_at(document, answers[k], appearances[a])
    /\ w' = 0
    /\ pc' = "ms_mark"
    /\ UNCHANGED <<document, answers, answers_in, doc_answers_seq, k, appearances, a, last_len>>
    /\ UNCHANGED <<psVars, mcVars, paVars>>

ms_answer_end ==
    /\ pc = "ms_idx"
    /\ a > Len(appearances)
    /\ k' = k + 1
    /\ pc' = "ms_answer"
    /\ UNCHANGED <<document, answers, answers_in, doc_answers_seq, appearances, a, w, last_len>>
    /\ UNCHANGED <<psVars, mcVars, paVars>>

ms_mark ==
    /\ pc = "ms_mark"
    /\ IF appearances[a] + w \in 1..Len(doc_answers_seq)
          THEN /\ doc_answers_seq' = [doc_answers_seq EXCEPT ![appearances[a] + w] = mark_value(w)]
               /\ last_len' = [last_len EXCEPT ![appearances[a] + w] = Len(answers[k])]
               /\ IF w + 1 < Len(answers[k])
                     THEN /\ w' = w + 1
                          /\ UNCHANGED <<pc, a>>
                     ELSE /\ a' = a + 1
                          /\ pc' = "ms_idx"
                          /\ UNCHANGED w
          ELSE /\ pc' = "ms_IndexError"
               /\ UNCHANGED <<doc_answers_seq, a, w, last_len>>
    /\ UNCHANGED <<document, answers, answers_in, k, appearances>>
    /\ UNCHANGED <<psVars, mcVars, paVars>>

NextMS == ms_sort \/ ms_next_answer \/ ms_return \/ ms_reject \/ ms_accept \/ ms_answer_end \/ ms_mark

SpecMS == InitMS /\ [][NextMS]_vars

TypeMS == pc \in {"ms_sort", "ms_answer", "ms_idx", "ms_mark", "ms_done", "ms_IndexError"}

\* the step machine and the whole-function operator agree
StepsAgree == pc = "ms_done" => doc_answers_seq = make_sequential_doc(document, answers_in)

\* the label list exists (line 492 has run)
Allocated == pc \in {"ms_answer", "ms_idx", "ms_mark", "ms_done"}

\* answer occurs contiguously in doc, starting at idx
FullMatch(doc, answer, idx) == /\ idx >= 1
                               /\ idx + Len(answer) - 1 <= Len(doc)
                               /\ \A i \in 1..Len(answer) : doc[idx + i - 1] = answer[i]

\* the occurrences <<first, last>> of the keyphrases of kps in doc
Occurrences(doc, kps) == {<<idx, idx + Len(kps[j]) - 1>> : <<j, idx>> \in {e \in (1..Len(kps)) \X (1..Len(doc)) : FullMatch(doc, kps[e[1]], e[2])}}

Covered(doc, kps, p) == \E o \in Occurrences(doc, kps) : p \in o[1]..o[2]

\* p and p+1 lie in one occurrence
Linked(doc, kps, p) == \E o \in Occurrences(doc, kps) : p >= o[1] /\ p + 1 <= o[2]

\* the occurrences, overlapping ones collapsed into one span
CollapsedSpans(doc, kps) == {sp \in (1..Len(doc)) \X (1..Len(doc)) :
                              /\ sp[1] <= sp[2]
                              /\ \A p \in sp[1]..sp[2] : Covered(doc, kps, p)
                              /\ \A p \in sp[1]..(sp[2] - 1) : Linked(doc, kps, p)
                              /\ (sp[1] = 1 \/ ~Linked(doc, kps, sp[1] - 1))
                              /\ (sp[2] = Len(doc) \/ ~Linked(doc, kps, sp[2]))}

\* C1: labels are written at an appearance only if every remaining token of
\* the keyphrase equals the document token at the same offset, so a position
\* holds a non-zero label only if it lies inside a contiguous occurrence of
\* some keyphrase of the document.
C1_WrittenOnlyOnFullMatch ==
    /\ pc = "ms_mark" => FullMatch(document, answers[k], appearances[a])
    /\ Allocated => \A p \in 1..Len(doc_answers_seq) : doc_answers_seq[p] # 0 => Covered(document, answers_in, p)

Sorted(s) == \A i \in 1..Len(s) : \A j \in i..Len(s) : Len(s[i]) <= Len(s[j])

Count(s, e) == Cardinality({i \in 1..Len(s) : s[i] = e})

SameElements(s, t) == Len(s) = Len(t) /\ \A i \in 1..Len(s) : Count(s, s[i]) = Count(t, s[i])

\* the overlap example of the specification, in both orders of the list
OverlapExample == /\ make_sequential_doc(<<"a", "b", "c">>, <<(<<"b">>), <<"b", "c">>>>) = <<0, 1, 2>>
                  /\ make_sequential_doc(<<"a", "b", "c">>, <<(<<"b", "c">>), <<"b">>>>) = <<0, 1, 2>>

\* C2: the keyphrases are applied in ascending order of token count, a label
\* is never overwritten by a strictly shorter keyphrase than the one that
\* wrote it, and [a,b,c] with [b] and [b,c] in either order gives [0,1,2].
C2_LongerWins ==
    /\ Allocated => Sorted(answers) /\ SameElements(answers, answers_in)
    /\ pc = "ms_mark" => last_len[appearances[a] + w] <= Len(answers[k])
    /\ (pc = "ms_done" /\ document = <<"a", "b", "a">> /\ answers_in \in {<<(<<"b">>), <<"b", "a">>>>, <<(<<"b", "a">>), <<"b">>>>}) => doc_answers_seq = <<0, 1, 2>>
    /\ OverlapExample

C2_Witness == pc = "ms_done" /\ document = <<"a", "b", "a">> /\ answers_in = <<(<<"b", "a">>), <<"b">>>> /\ doc_answers_seq = <<0, 1, 2>>

\* C3: the label sequence has the length of the document, its entries are
\* 0, 1 or 2, every 2 is at the second position or later and directly after
\* a 1 or a 2, after every single write; a written label is never 0 again.
C3_WellFormedLabels ==
    Allocated => /\ Len(doc_answers_seq) = Len(document)
                 /\ \A p \in 1..Len(doc_answers_seq) :
                       /\ doc_answers_seq[p] \in {0, 1, 2}
                       /\ doc_answers_seq[p] = 2 => p >= 2 /\ doc_answers_seq[p - 1] \in {1, 2}
                       /\ last_len[p] > 0 => doc_answers_seq[p] # 0

C3_Witness == pc = "ms_mark" /\ w = 2 /\ k = 2 /\ doc_answers_seq = <<1, 2, 1>> /\ last_len = <<3, 3, 1>>

\* C4: every contiguous occurrence of a keyphrase is an appearance that is
\* accepted, its labels read 1, 2, .., 2 right after it is processed, and at
\* the end every position an occurrence covers is non-zero.
C4_EveryOccurrenceLabelled ==
    /\ pc = "ms_idx" => \A idx \in 1..Len(document) : FullMatch(document, answers[k], idx) =>
                            /\ \E i \in 1..Len(appearances) : appearances[i] = idx
                            /\ is_kp_at(document, answers[k], idx)
    /\ (pc = "ms_idx" /\ a > 1 /\ FullMatch(document, answers[k], appearances[a - 1])) =>
           \A i \in 0..(Len(answers[k]) - 1) : doc_answers_seq[appearances[a - 1] + i] = (IF i = 0 THEN 1 ELSE 2)
    /\ pc = "ms_done" => \A p \in 1..Len(document) : Covered(document, answers_in, p) => doc_answers_seq[p] # 0

C4_Witness == pc = "ms_done" /\ document = <<"a", "b", "a">> /\ answers_in = <<(<<"a">>)>> /\ doc_answers_seq = <<1, 0, 1>>

\* C5: decoding the arg-max of the one-hot expansion of the label sequence
\* gives exactly the token spans of the keyphrases that occur in the
\* document, overlapping occurrences collapsed into one span.
C5_RoundTrip ==
    (pc = "ms_done" /\ Len(document) > 0) =>
        get_words(document, undo_sequential(make_categorical(<<doc_answers_seq>>))[1]) = {SubSeq(document, sp[1], sp[2]) : sp \in CollapsedSpans(document, answers_in)}

\* ------------------------------------------------------ prepare_sequential
\* "if val_doc and val_answer": None and the empty dict are falsy
Truthy(d) == d # <<>>

\* make_sequential over a split: seq_answers[key] for every key of documents
make_sequential(documents, answer_lists) == [i \in 1..Len(documents) |-> make_sequential_doc(documents[i], answer_lists[i])]

\* doc_answers_set.sort(...) sorts the caller's list of every key visited
sorted_in_place(documents, answer_lists) == [i \in 1..Len(answer_lists) |-> IF i <= Len(documents) THEN sort_by_len(answer_lists[i]) ELSE answer_lists[i]]

\* the stemmer is an external function on tokens; it maps a token to a token
stem(token) == IF token = "b" THEN "a" ELSE token

stem_dataset(dataset) == [i \in 1..Len(dataset) |-> [t \in 1..Len(dataset[i]) |-> stem(dataset[i][t])]]

\* documents_full: the documents of the training, the test and, when both
\* validation arguments are given, the validation split
corpus_train_only(tr, te, vd, va) == tr
corpus_of(tr, te, vd, va) == tr \o te \o (IF Truthy(vd) /\ Truthy(va) THEN vd ELSE <<>>)

\* Dictionary.fit_on_texts: indices from 1 by descending frequency, ties by
\* first-seen order
RECURSIVE Flatten(_, _)
Flatten(corpus, i) == IF i > Len(corpus) THEN <<>> ELSE corpus[i] \o Flatten(corpus, i + 1)

Freq(flat, tok) == Cardinality({i \in 1..Len(flat) : flat[i] = tok})

FirstSeen(flat, tok) == CHOOSE i \in 1..Len(flat) : flat[i] = tok /\ \A j \in 1..(i - 1) : flat[j] # tok

Before(flat, u, tok) == Freq(flat, u) > Freq(flat, tok) \/ (Freq(flat, u) = Freq(flat, tok) /\ FirstSeen(flat, u) < FirstSeen(flat, tok))

fit_on_texts(corpus) == LET flat == Flatten(corpus, 1) IN LET toks == {flat[i] : i \in 1..Len(flat)} IN [tok \in toks |-> 1 + Cardinality({u \in toks : Before(flat, u, tok)})]

\* Dictionary.fit_on_texts fails with ConfigurationError if the cap is below
\* 1 or the corpus is empty
fit_fails(corpus, cap) == cap < 1 \/ corpus = <<>>

\* Dictionary.texts_to_sequences: the index of a token, 0 for a token that is
\* not in the vocabulary or whose index is beyond the cap
token_index(wi, cap, tok) == IF tok \in DOMAIN wi /\ wi[tok] < cap THEN wi[tok] ELSE 0

texts_to_sequences(wi, cap, texts) == [i \in 1..Len(texts) |-> [t \in 1..Len(texts[i]) |-> token_index(wi, cap, texts[i][t])]]

\* keras pad_sequences(.., maxlen, padding='post', truncating='post')
truncate_pre(row, maxlen) == IF Len(row) > maxlen THEN SubSeq(row, Len(row) - maxlen + 1, Len(row)) ELSE row
truncate_post(row, maxlen) == IF Len(row) > maxlen THEN SubSeq(row, 1, maxlen) ELSE row

pad_sequences(seqs, maxlen) == [i \in 1..Len(seqs) |-> [t \in 1..maxlen |-> IF t <= Len(truncate_post(seqs[i], maxlen)) THEN truncate_post(seqs[i], maxlen)[t] ELSE 0]]

\* glove.load_glove: the pretrained vector of a word, for the words that have
\* one
Glove(tok) == [d \in 1..EmbeddingsSize |-> IF tok = "a" THEN d ELSE d + EmbeddingsSize]

load_glove(S) == [tok \in S |-> Glove(tok)]

ZeroVector == [d \in 1..EmbeddingsSize |-> 0]

Min(m, n) == IF m < n THEN m ELSE n

\* num_words = min(max_vocabulary_size, 1 + len(word_index))
num_words_of(cap, wi) == Min(cap, 1 + Cardinality(DOMAIN wi))

\* the row the loop of lines 447-453 writes for word index i
row_shifted(wi, i) == i - 1
row_of(wi, i) == i

\* "if i >= num_words: continue"
over_cap_never(i, nw) == FALSE
over_cap(i, nw) == i >= nw

\* the rows the loop assigns: one per vocabulary word that is not skipped and
\* has a pretrained vector
rows_written(wi, emb, nw) == {row_of(wi, wi[word]) : word \in {t \in DOMAIN wi : ~over_cap(wi[t], nw) /\ t \in DOMAIN emb}}

\* embedding_matrix: np.zeros, then one row per vocabulary word that is
\* below num_words and has a pretrained vector
build_embedding_matrix(wi, emb, nw) == [r \in 0..(nw - 1) |-> IF \E word \in DOMAIN wi : ~over_cap(wi[word], nw) /\ row_of(wi, wi[word]) = r /\ word \in DOMAIN emb THEN emb[CHOOSE word \in DOMAIN wi : ~over_cap(wi[word], nw) /\ row_of(wi, wi[word]) = r /\ word \in DOMAIN emb] ELSE ZeroVector]

\* "for key, doc in train_doc.items(): train_y.append(train_answer_seq[key])"
labels_reversed(docs, seq_by_key) == [i \in 1..Len(docs) |-> seq_by_key[Len(docs) + 1 - i]]
labels_by_key(docs, seq_by_key) == [i \in 1..Len(docs) |-> seq_by_key[i]]

\* the inputs of the splits
TrainAnswerLists == {<<>>, <<(<<"a">>)>>, <<(<<"a", "b">>)>>, <<(<<"b", "a">>), <<"b">>>>}

Samples == {[doc |-> <<"b", "a">>, ans |-> <<(<<"b", "a">>)>>], [doc |-> <<"b", "b">>, ans |-> <<(<<"a", "b">>), <<"b">>>>], [doc |-> <<"a", "b", "a">>, ans |-> <<>>]}

\* a split of two documents
TwoSamples == <<[doc |-> <<"b", "a">>, ans |-> <<(<<"a", "a">>)>>], [doc |-> <<"a", "b", "a">>, ans |-> <<(<<"b">>)>>]>>

InitPS ==
    /\ MSIdle
    /\ MCIdle
    /\ PAIdle
    /\ PSLocalsUnset
    /\ pc = "ps_label_train"
    /\ \/ train_doc = <<>> /\ train_answer = <<>>
       \/ \E d \in Documents : \E al \in TrainAnswerLists : train_doc = <<d>> /\ train_answer = <<al>>
    /\ \/ test_doc = <<>> /\ test_answer = <<>>
       \/ \E sm \in Samples : test_doc = <<sm.doc>> /\ test_answer = <<sm.ans>>
       \/ test_doc = <<TwoSamples[1].doc, TwoSamples[2].doc>> /\ test_answer = <<TwoSamples[1].ans, TwoSamples[2].ans>>
    /\ \/ val_doc = <<>> /\ val_answer = <<>>
       \/ \E sm \in Samples : val_doc = <<sm.doc>> /\ val_answer \in {<<>>, <<sm.ans>>}
       \/ \E sm \in Samples : val_doc = <<>> /\ val_answer = <<sm.ans>>
    /\ max_document_length \in 1..MaxPadLen
    /\ max_vocabulary_size \in 0..MaxVocab
    /\ stem_test \in BOOLEAN

\* line 361
ps_label_train ==
    /\ pc = "ps_label_train"
    /\ train_answer_seq' = make_sequential(train_doc, train_answer)
    /\ train_answer' = sorted_in_place(train_doc, train_answer)
    /\ pc' = "ps_label_test"
    /\ UNCHANGED <<msVars, mcVars, paVars, psParams, test_answer, val_answer, test_answer_seq, val_answer_seq, psDict, psTrain, psTest, psVal, psEmb>>

\* lines 363-369
ps_label_test ==
    /\ pc = "ps_label_test"
    /\ test_answer_seq' = make_sequential(IF stem_test THEN stem_dataset(test_doc) ELSE test_doc, test_answer)
    /\ test_answer' = sorted_in_place(test_doc, test_answer)
    /\ pc' = "ps_label_val"
    /\ UNCHANGED <<msVars, mcVars, paVars, psParams, train_answer, val_answer, train_answer_seq, val_answer_seq, psDict, psTrain, psTest, psVal, psEmb>>

\* lines 371-376
ps_label_val ==
    /\ pc = "ps_label_val"
    /\ IF Truthy(val_doc) /\ Truthy(val_answer)
          THEN /\ val_answer_seq' = make_sequential(val_doc, val_answer)
               /\ val_answer' = sorted_in_place(val_doc, val_answer)
          ELSE UNCHANGED <<val_answer_seq, val_answer>>
    /\ pc' = "ps_collect"
    /\ UNCHANGED <<msVars, mcVars, paVars, psParams, train_answer, test_answer, train_answer_seq, test_answer_seq, psDict, psTrain, psTest, psVal, psEmb>>

\* lines 378-396
ps_collect ==
    /\ pc = "ps_collect"
    /\ documents_full' = corpus_of(train_doc, test_doc, val_doc, val_answer)
    /\ train_y' = labels_by_key(train_doc, train_answer_seq)
    /\ test_y' = labels_by_key(test_doc, test_answer_seq)
    /\ val_y' = IF Truthy(val_doc) /\ Truthy(val_answer) THEN labels_by_key(val_doc, val_answer_seq) ELSE <<>>
    /\ pc' = "ps_fit"
    /\ UNCHANGED <<msVars, mcVars, paVars, psParams, psAnswers, psSeqs, word_index, fit_calls, train_x, test_x, val_x, psEmb>>

\* lines 398-403
ps_fit ==
    /\ pc = "ps_fit"
    /\ IF fit_fails(documents_full, max_vocabulary_size)
          THEN /\ pc' = "ps_ConfigurationError"
               /\ UNCHANGED <<word_index, fit_calls>>
          ELSE /\ word_index' = fit_on_texts(documents_full)
               /\ fit_calls' = fit_calls + 1
               /\ pc' = "ps_encode"
    /\ UNCHANGED <<msVars, mcVars, paVars, psParams, psAnswers, psSeqs, documents_full, psTrain, psTest, psVal, psEmb>>

\* lines 405-414; max() of an empty list raises ValueError
ps_encode ==
    /\ pc = "ps_encode"
    /\ train_x' = texts_to_sequences(word_index, max_vocabulary_size, train_doc)
    /\ test_x' = texts_to_sequences(word_index, max_vocabulary_size, test_doc)
    /\ val_x' = IF Truthy(val_doc) /\ Truthy(val_answer) THEN texts_to_sequences(word_index, max_vocabulary_size, val_doc) ELSE <<>>
    /\ pc' = IF train_doc = <<>> \/ test_doc = <<>> THEN "ps_ValueError" ELSE "ps_pad_train"
    /\ UNCHANGED <<msVars, mcVars, paVars, psParams, psAnswers, psSeqs, psDict, train_y, test_y, val_y, psEmb>>

\* lines 416-417
ps_pad_train ==
    /\ pc = "ps_pad_train"
    /\ train_x' = pad_sequences(train_x, max_document_length)
    /\ train_y' = pad_sequences(train_y, max_document_length)
    /\ pc' = "ps_categorical_train"
    /\ UNCHANGED <<msVars, mcVars, paVars, psParams, psAnswers, psSeqs, psDict, psTest, psVal, psEmb>>

\* line 418
ps_categorical_train ==
    /\ pc = "ps_categorical_train"
    /\ train_y' = make_categorical(train_y)
    /\ pc' = "ps_pad_test"
    /\ UNCHANGED <<msVars, mcVars, paVars, psParams, psAnswers, psSeqs, psDict, train_x, psTest, psVal, psEmb>>

\* lines 420-421
ps_pad_test ==
    /\ pc = "ps_pad_test"
    /\ test_x' = pad_sequences(test_x, max_document_length)
    /\ test_y' = pad_sequences(test_y, max_document_length)
    /\ pc' = "ps_categorical_test"
    /\ UNCHANGED <<msVars, mcVars, paVars, psParams, psAnswers, psSeqs, psDict, psTrain, psVal, psEmb>>

\* line 422
ps_categorical_test ==
    /\ pc = "ps_categorical_test"
    /\ test_y' = make_categorical(test_y)
    /\ pc' = IF Truthy(val_doc) /\ Truthy(val_answer) THEN "ps_pad_val" ELSE "ps_embedding"
    /\ UNCHANGED <<msVars, mcVars, paVars, psParams, psAnswers, psSeqs, psDict, psTrain, test_x, psVal, psEmb>>

\* lines 424-426
ps_pad_val ==
    /\ pc = "ps_pad_val"
    /\ val_x' = pad_sequences(val_x, max_document_length)
    /\ val_y' = pad_sequences(val_y, max_document_length)
    /\ pc' = "ps_categorical_val"
    /\ UNCHANGED <<msVars, mcVars, paVars, psParams, psAnswers, psSeqs, psDict, psTrain, psTest, psEmb>>

\* line 427
ps_categorical_val ==
    /\ pc = "ps_categorical_val"
    /\ val_y' = make_categorical(val_y)
    /\ pc' = "ps_embedding"
    /\ UNCHANGED <<msVars, mcVars, paVars, psParams, psAnswers, psSeqs, psDict, psTrain, psTest, val_x, psEmb>>

\* lines 438-455
ps_embedding ==
    /\ pc = "ps_embedding"
    /\ \E S \in SUBSET Tokens : embeddings_index' = load_glove(S)
    /\ num_words' = num_words_of(max_vocabulary_size, word_index)
    /\ embedding_matrix' = build_embedding_matrix(word_index, embeddings_index', num_words')
    /\ pc' = IF rows_written(word_index, embeddings_index', num_words') \subseteq 0..(num_words' - 1) THEN "ps_done" ELSE "ps_IndexError"
    /\ UNCHANGED <<msVars, mcVars, paVars, psParams, psAnswers, psSeqs, psDict, psTrain, psTest, psVal>>

NextPS == ps_label_train \/ ps_label_test \/ ps_label_val \/ ps_collect \/ ps_fit \/ ps_encode \/ ps_pad_train \/ ps_categorical_train \/ ps_pad_test \/ ps_categorical_test \/ ps_pad_val \/ ps_categorical_val \/ ps_embedding

SpecPS == InitPS /\ [][NextPS]_vars

\* ------------------------------------------------ make_categorical, alone
LabelRows(n) == [1..n -> 0..MaxLabel]

InitMC ==
    /\ MSIdle
    /\ PSIdle
    /\ PAIdle
    /\ pc = "mc_call"
    /\ \E rows \in 1..MaxRows : \E n \in 1..MaxPadLen : x \in [1..rows -> LabelRows(n)]
    /\ new_x = <<>>

\* lines 533-546
mc_make_categorical ==
    /\ pc = "mc_call"
    /\ new_x' = make_categorical(x)
    /\ pc' = "mc_done"
    /\ UNCHANGED <<msVars, psVars, paVars, x>>

NextMC == mc_make_categorical

SpecMC == InitMC /\ [][NextMC]_vars

\* ------------------------------------- prepare_answer and prepare_answer_2
InList(e, list) == \E i \in 1..Len(list) : list[i] = e

\* Dictionary.token_list_to_sequence
token_list_to_sequence(wi, cap, toks) == [t \in 1..Len(toks) |-> token_index(wi, cap, toks[t])]

\* one (document, candidate, truth value) entry per candidate of every
\* document: [0, 1] if the candidate is an answer of the document, else [1, 0]
RECURSIVE candidate_pairs(_, _, _, _, _, _)
candidate_pairs(wi, cap, docs, cands, answer_lists, i) == IF i > Len(docs) THEN <<>> ELSE [j \in 1..Len(cands[i]) |-> [q |-> token_list_to_sequence(wi, cap, docs[i]), a |-> token_list_to_sequence(wi, cap, cands[i][j]), y |-> IF InList(cands[i][j], answer_lists[i]) THEN <<0, 1>> ELSE <<1, 0>>]] \o candidate_pairs(wi, cap, docs, cands, answer_lists, i + 1)

\* list.remove(e): the first element equal to e is removed
remove_first(list, e) == IF ~InList(e, list) THEN list ELSE LET i == CHOOSE j \in 1..Len(list) : list[j] = e /\ \A h \in 1..(j - 1) : list[h] # e IN SubSeq(list, 1, i - 1) \o SubSeq(list, i + 1, Len(list))

\* "for answer in answers: if answer in wrong_candidates: remove(answer)"
RECURSIVE remove_answers(_, _, _)
remove_answers(wrong, answer_list, j) == IF j > Len(answer_list) THEN wrong ELSE remove_answers(remove_first(wrong, answer_list[j]), answer_list, j + 1)

\* "while len(wrong_candidates) > len(train_answer[key])"
sampling_until_one_more(wrong, answer_list) == Len(wrong) > Len(answer_list) + 1
sampling_goes_on(wrong, answer_list) == Len(wrong) > Len(answer_list)

\* the lists the loop "while len(wrong_candidates) > n: remove a random
\* element" can end with
RECURSIVE sample_down(_, _)
sample_down(wrong, n) == IF Len(wrong) <= n THEN {wrong} ELSE UNION {sample_down(remove_first(wrong, wrong[i]), n) : i \in 1..Len(wrong)}

\* the wrong candidates first, then the true answers, of one document
balanced_pairs(wi, cap, doc, wrong, answer_list) == [j \in 1..Len(wrong) |-> [q |-> token_list_to_sequence(wi, cap, doc), a |-> token_list_to_sequence(wi, cap, wrong[j]), y |-> <<1, 0>>]] \o [j \in 1..Len(answer_list) |-> [q |-> token_list_to_sequence(wi, cap, doc), a |-> token_list_to_sequence(wi, cap, answer_list[j]), y |-> <<0, 1>>]]

\* the balanced entries of a split; a split holds one document at most here
BalancedChoices(wi, cap, docs, cands, answer_lists) == IF docs = <<>> THEN {<<>>} ELSE {balanced_pairs(wi, cap, docs[1], wrong, answer_lists[1]) : wrong \in sample_down(remove_answers(cands[1], answer_lists[1], 1), Len(answer_lists[1]))}

Qs(pairs) == [j \in 1..Len(pairs) |-> pairs[j].q]

As(pairs) == [j \in 1..Len(pairs) |-> pairs[j].a]

Ys(pairs) == [j \in 1..Len(pairs) |-> pairs[j].y]

Pool == {<<"a">>, <<"b">>, <<"a", "b">>}

InitPA ==
    /\ MSIdle
    /\ MCIdle
    /\ PSLocalsUnset
    /\ PALocalsUnset
    /\ stem_test = FALSE
    /\ pc \in {"pa_collect", "pa2_collect"}
    /\ \/ train_doc = <<>> /\ train_answer = <<>> /\ train_candidates = <<>>
       \/ \E al \in SeqsUpTo(Pool, MaxAnswers) : \E cl \in SeqsUpTo(Pool, MaxCands) : train_doc = <<(<<"a", "b">>)>> /\ train_answer = <<al>> /\ train_candidates = <<cl>>
    /\ \/ test_doc = <<>> /\ test_answer = <<>> /\ test_candidates = <<>>
       \/ test_doc = <<(<<"b", "a", "b">>)>> /\ test_answer = <<(<<(<<"b">>)>>)>> /\ test_candidates = <<(<<(<<"a", "b">>), <<"b">>>>)>>
    /\ \/ val_doc = <<>> /\ val_answer = <<>> /\ val_candidates = <<>>
       \/ val_doc = <<(<<"a">>)>> /\ val_answer \in {<<>>, <<(<<(<<"a">>)>>)>>} /\ val_candidates = <<(<<(<<"a">>), <<"b">>, <<"a">>>>)>>
    /\ max_document_length \in 1..MaxPadLen
    /\ max_answer_length \in 1..MaxPadLen
    /\ max_vocabulary_size \in 1..MaxVocab

\* lines 57-65
pa_collect ==
    /\ pc = "pa_collect"
    /\ documents_full' = corpus_of(train_doc, test_doc, val_doc, val_answer)
    /\ pc' = "pa_fit"
    /\ UNCHANGED <<msVars, mcVars, train_doc, train_answer, test_doc, test_answer, val_doc,
                   val_answer, max_document_length, max_vocabulary_size, stem_test, train_answer_seq,
                   test_answer_seq, val_answer_seq, train_x, train_y, test_x, test_y, val_x, val_y,
                   word_index, fit_calls, num_words, embeddings_index, embedding_matrix,
                   train_candidates, test_candidates, val_candidates, max_answer_length, train_q,
                   train_a, test_q, test_a, val_q, val_a, val_q_balanced, val_a_balanced,
                   val_y_balanced, wrong_candidates>>

\* lines 67-72
pa_fit ==
    /\ pc = "pa_fit"
    /\ IF fit_fails(documents_full, max_vocabulary_size)
          THEN /\ pc' = "pa_ConfigurationError"
               /\ UNCHANGED <<word_index, fit_calls>>
          ELSE /\ word_index' = fit_on_texts(documents_full)
               /\ fit_calls' = fit_calls + 1
               /\ pc' = "pa_pair_train"
    /\ UNCHANGED <<msVars, mcVars, train_doc, train_answer, test_doc, test_answer, val_doc,
                   val_answer, max_document_length, max_vocabulary_size, stem_test, train_answer_seq,
                   test_answer_seq, val_answer_seq, documents_full, train_x, train_y, test_x, test_y,
                   val_x, val_y, num_words, embeddings_index, embedding_matrix, train_candidates,
                   test_candidates, val_candidates, max_answer_length, train_q, train_a, test_q,
                   test_a, val_q, val_a, val_q_balanced, val_a_balanced, val_y_balanced, wrong_candidates>>

\* lines 74-80
pa_pair_train ==
    /\ pc = "pa_pair_train"
    /\ LET pairs == candidate_pairs(word_index, max_vocabulary_size, train_doc, train_candidates, train_answer, 1)
       IN /\ train_q' = Qs(pairs)
          /\ train_a' = As(pairs)
          /\ train_y' = Ys(pairs)
    /\ pc' = "pa_pair_test"
    /\ UNCHANGED <<msVars, mcVars, train_doc, train_answer, test_doc, test_answer, val_doc,
                   val_answer, max_document_length, max_vocabulary_size, stem_test, train_answer_seq,
                   test_answer_seq, val_answer_seq, documents_full, train_x, test_x, test_y, val_x,
                   val_y, word_index, fit_calls, num_words, embeddings_index, embedding_matrix,
                   train_candidates, test_candidates, val_candidates, max_answer_length, test_q,
                   test_a, val_q, val_a, val_q_balanced, val_a_balanced, val_y_balanced, wrong_candidates>>

\* lines 82-87
pa_pair_test ==
    /\ pc = "pa_pair_test"
    /\ LET pairs == candidate_pairs(word_index, max_vocabulary_size, test_doc, test_candidates, test_answer, 1)
       IN /\ test_q' = Qs(pairs)
          /\ test_a' = As(pairs)
          /\ test_y' = Ys(pairs)
    /\ pc' = "pa_pair_val"
    /\ UNCHANGED <<msVars, mcVars, train_doc, train_answer, test_doc, test_answer, val_doc,
                   val_answer, max_document_length, max_vocabulary_size, stem_test, train_answer_seq,
                   test_answer_seq, val_answer_seq, documents_full, train_x, train_y, test_x, val_x,
                   val_y, word_index, fit_calls, num_words, embeddings_index, embedding_matrix,
                   train_candidates, test_candidates, val_candidates, max_answer_length, train_q,
                   train_a, val_q, val_a, val_q_balanced, val_a_balanced, val_y_balanced, wrong_candidates>>

\* lines 89-95
pa_pair_val ==
    /\ pc = "pa_pair_val"
    /\ IF Truthy(val_doc) /\ Truthy(val_answer)
          THEN LET pairs == candidate_pairs(word_index, max_vocabulary_size, val_doc, val_candidates, val_answer, 1)
               IN /\ val_q' = Qs(pairs)
                  /\ val_a' = As(pairs)
                  /\ val_y' = Ys(pairs)
          ELSE UNCHANGED <<val_q, val_a, val_y>>
    /\ pc' = "pa_pad"
    /\ UNCHANGED <<msVars, mcVars, train_doc, train_answer, test_doc, test_answer, val_doc,
                   val_answer, max_document_length, max_vocabulary_size, stem_test, train_answer_seq,
                   test_answer_seq, val_answer_seq, documents_full, train_x, train_y, test_x, test_y,
                   val_x, word_index, fit_calls, num_words, embeddings_index, embedding_matrix,
                   train_candidates, test_candidates, val_candidates, max_answer_length, train_q,
                   train_a, test_q, test_a, val_q_balanced, val_a_balanced, val_y_balanced, wrong_candidates>>

\* lines 97-122; max() of an empty list raises ValueError
pa_pad ==
    /\ pc = "pa_pad"
    /\ IF train_q = <<>> \/ test_q = <<>> \/ (Truthy(val_doc) /\ Truthy(val_answer) /\ val_q = <<>>)
          THEN /\ pc' = "pa_ValueError"
               /\ UNCHANGED <<train_q, train_a, test_q, test_a, val_q, val_a>>
          ELSE /\ train_q' = pad_sequences(train_q, max_document_length)
               /\ train_a' = pad_sequences(train_a, max_answer_length)
               /\ test_q' = pad_sequences(test_q, max_document_length)
               /\ test_a' = pad_sequences(test_a, max_answer_length)
               /\ val_q' = IF Truthy(val_doc) /\ Truthy(val_answer) THEN pad_sequences(val_q, max_document_length) ELSE val_q
               /\ val_a' = IF Truthy(val_doc) /\ Truthy(val_answer) THEN pad_sequences(val_a, max_answer_length) ELSE val_a
               /\ pc' = "pa_embedding"
    /\ UNCHANGED <<msVars, mcVars, train_doc, train_answer, test_doc, test_answer, val_doc,
                   val_answer, max_document_length, max_vocabulary_size, stem_test, train_answer_seq,
                   test_answer_seq, val_answer_seq, documents_full, train_x, train_y, test_x, test_y,
                   val_x, val_y, word_index, fit_calls, num_words, embeddings_index,
                   embedding_matrix, train_candidates, test_candidates, val_candidates,
                   max_answer_length, val_q_balanced, val_a_balanced, val_y_balanced, wrong_candidates>>

\* lines 124-141
pa_embedding ==
    /\ pc = "pa_embedding"
    /\ \E S \in SUBSET Tokens : embeddings_index' = load_glove(S)
    /\ num_words' = num_words_of(max_vocabulary_size, word_index)
    /\ embedding_matrix' = build_embedding_matrix(word_index, embeddings_index', num_words')
    /\ pc' = IF rows_written(word_index, embeddings_index', num_words') \subseteq 0..(num_words' - 1) THEN "pa_done" ELSE "pa_IndexError"
    /\ UNCHANGED <<msVars, mcVars, train_doc, train_answer, test_doc, test_answer, val_doc,
                   val_answer, max_document_length, max_vocabulary_size, stem_test, train_answer_seq,
                   test_answer_seq, val_answer_seq, documents_full, train_x, train_y, test_x, test_y,
                   val_x, val_y, word_index, fit_calls, train_candidates, test_candidates,
                   val_candidates, max_answer_length, train_q, train_a, test_q, test_a, val_q, val_a,
                   val_q_balanced, val_a_balanced, val_y_balanced, wrong_candidates>>

\* lines 199-207
pa2_collect ==
    /\ pc = "pa2_collect"
    /\ documents_full' = corpus_of(train_doc, test_doc, val_doc, val_answer)
    /\ pc' = "pa2_fit"
    /\ UNCHANGED <<msVars, mcVars, train_doc, train_answer, test_doc, test_answer, val_doc,
                   val_answer, max_document_length, max_vocabulary_size, stem_test, train_answer_seq,
                   test_answer_seq, val_answer_seq, train_x, train_y, test_x, test_y, val_x, val_y,
                   word_index, fit_calls, num_words, embeddings_index, embedding_matrix,
                   train_candidates, test_candidates, val_candidates, max_answer_length, train_q,
                   train_a, test_q, test_a, val_q, val_a, val_q_balanced, val_a_balanced,
                   val_y_balanced, wrong_candidates>>

\* lines 209-214
pa2_fit ==
    /\ pc = "pa2_fit"
    /\ IF fit_fails(documents_full, max_vocabulary_size)
          THEN /\ pc' = "pa2_ConfigurationError"
               /\ UNCHANGED <<word_index, fit_calls>>
          ELSE /\ word_index' = fit_on_texts(documents_full)
               /\ fit_calls' = fit_calls + 1
               /\ pc' = "pa2_pair_train"
    /\ UNCHANGED <<msVars, mcVars, train_doc, train_answer, test_doc, test_answer, val_doc,
                   val_answer, max_document_length, max_vocabulary_size, stem_test, train_answer_seq,
                   test_answer_seq, val_answer_seq, documents_full, train_x, train_y, test_x, test_y,
                   val_x, val_y, num_words, embeddings_index, embedding_matrix, train_candidates,
                   test_candidates, val_candidates, max_answer_length, train_q, train_a, test_q,
                   test_a, val_q, val_a, val_q_balanced, val_a_balanced, val_y_balanced, wrong_candidates>>

\* lines 216-224: the candidates of the document without its answers; a
\* split holds one document at most here
pa2_pair_train ==
    /\ pc = "pa2_pair_train"
    /\ IF train_doc = <<>>
          THEN /\ pc' = "pa2_pair_val_balanced"
               /\ UNCHANGED wrong_candidates
          ELSE /\ wrong_candidates' = remove_answers(train_candidates[1], train_answer[1], 1)
               /\ pc' = "pa2_sample_train"
    /\ UNCHANGED <<msVars, mcVars, train_doc, train_answer, test_doc, test_answer, val_doc,
                   val_answer, max_document_length, max_vocabulary_size, stem_test, train_answer_seq,
                   test_answer_seq, val_answer_seq, documents_full, train_x, test_x, test_y, val_x,
                   val_y, word_index, fit_calls, num_words, embeddings_index, embedding_matrix,
                   train_candidates, test_candidates, val_candidates, max_answer_length, test_q,
                   test_a, val_q, val_a, train_q, train_a, train_y, val_q_balanced, val_a_balanced, val_y_balanced>>

\* lines 226-228: one iteration of the while loop
pa2_sample_train ==
    /\ pc = "pa2_sample_train"
    /\ sampling_goes_on(wrong_candidates, train_answer[1])
    /\ \E i \in 1..Len(wrong_candidates) : wrong_candidates' = remove_first(wrong_candidates, wrong_candidates[i])
    /\ UNCHANGED <<pc, msVars, mcVars, train_doc, train_answer, test_doc, test_answer, val_doc,
                   val_answer, max_document_length, max_vocabulary_size, stem_test, train_answer_seq,
                   test_answer_seq, val_answer_seq, documents_full, train_x, test_x, test_y, val_x,
                   val_y, word_index, fit_calls, num_words, embeddings_index, embedding_matrix,
                   train_candidates, test_candidates, val_candidates, max_answer_length, test_q,
                   test_a, val_q, val_a, train_q, train_a, train_y, val_q_balanced, val_a_balanced, val_y_balanced>>

\* lines 230-240
pa2_append_train ==
    /\ pc = "pa2_sample_train"
    /\ ~sampling_goes_on(wrong_candidates, train_answer[1])
    /\ train_q' = Qs(balanced_pairs(word_index, max_vocabulary_size, train_doc[1], wrong_candidates, train_answer[1]))
    /\ train_a' = As(balanced_pairs(word_index, max_vocabulary_size, train_doc[1], wrong_candidates, train_answer[1]))
    /\ train_y' = Ys(balanced_pairs(word_index, max_vocabulary_size, train_doc[1], wrong_candidates, train_answer[1]))
    /\ pc' = "pa2_pair_val_balanced"
    /\ UNCHANGED <<msVars, mcVars, train_doc, train_answer, test_doc, test_answer, val_doc,
                   val_answer, max_document_length, max_vocabulary_size, stem_test, train_answer_seq,
                   test_answer_seq, val_answer_seq, documents_full, train_x, test_x, test_y, val_x,
                   val_y, word_index, fit_calls, num_words, embeddings_index, embedding_matrix,
                   train_candidates, test_candidates, val_candidates, max_answer_length, test_q,
                   test_a, val_q, val_a, val_q_balanced, val_a_balanced, val_y_balanced, wrong_candidates>>

\* lines 242-250
pa2_pair_val_balanced ==
    /\ pc = "pa2_pair_val_balanced"
    /\ IF Truthy(val_doc) /\ Truthy(val_answer)
          THEN /\ wrong_candidates' = remove_answers(val_candidates[1], val_answer[1], 1)
               /\ pc' = "pa2_sample_val"
          ELSE /\ pc' = "pa2_pair_test"
               /\ UNCHANGED wrong_candidates
    /\ UNCHANGED <<msVars, mcVars, train_doc, train_answer, test_doc, test_answer, val_doc,
                   val_answer, max_document_length, max_vocabulary_size, stem_test, train_answer_seq,
                   test_answer_seq, val_answer_seq, documents_full, train_x, test_x, test_y, val_x,
                   val_y, word_index, fit_calls, num_words, embeddings_index, embedding_matrix,
                   train_candidates, test_candidates, val_candidates, max_answer_length, test_q,
                   test_a, val_q, val_a, train_q, train_a, train_y, val_q_balanced, val_a_balanced, val_y_balanced>>

\* lines 252-254: one iteration of the while loop
pa2_sample_val ==
    /\ pc = "pa2_sample_val"
    /\ sampling_goes_on(wrong_candidates, val_answer[1])
    /\ \E i \in 1..Len(wrong_candidates) : wrong_candidates' = remove_first(wrong_candidates, wrong_candidates[i])
    /\ UNCHANGED <<pc, msVars, mcVars, train_doc, train_answer, test_doc, test_answer, val_doc,
                   val_answer, max_document_length, max_vocabulary_size, stem_test, train_answer_seq,
                   test_answer_seq, val_answer_seq, documents_full, train_x, test_x, test_y, val_x,
                   val_y, word_index, fit_calls, num_words, embeddings_index, embedding_matrix,
                   train_candidates, test_candidates, val_candidates, max_answer_length, test_q,
                   test_a, val_q, val_a, train_q, train_a, train_y, val_q_balanced, val_a_balanced, val_y_balanced>>

\* lines 256-266
pa2_append_val ==
    /\ pc = "pa2_sample_val"
    /\ ~sampling_goes_on(wrong_candidates, val_answer[1])
    /\ val_q_balanced' = Qs(balanced_pairs(word_index, max_vocabulary_size, val_doc[1], wrong_candidates, val_answer[1]))
    /\ val_a_balanced' = As(balanced_pairs(word_index, max_vocabulary_size, val_doc[1], wrong_candidates, val_answer[1]))
    /\ val_y_balanced' = Ys(balanced_pairs(word_index, max_vocabulary_size, val_doc[1], wrong_candidates, val_answer[1]))
    /\ pc' = "pa2_pair_test"
    /\ UNCHANGED <<msVars, mcVars, train_doc, train_answer, test_doc, test_answer, val_doc,
                   val_answer, max_document_length, max_vocabulary_size, stem_test, train_answer_seq,
                   test_answer_seq, val_answer_seq, documents_full, train_x, test_x, test_y, val_x,
                   val_y, word_index, fit_calls, num_words, embeddings_index, embedding_matrix,
                   train_candidates, test_candidates, val_candidates, max_answer_length, test_q,
                   test_a, val_q, val_a, train_q, train_a, train_y, wrong_candidates>>

\* lines 268-274
pa2_pair_test ==
    /\ pc = "pa2_pair_test"
    /\ LET pairs == candidate_pairs(word_index, max_vocabulary_size, test_doc, test_candidates, test_answer, 1)
       IN /\ test_q' = Qs(pairs)
          /\ test_a' = As(pairs)
          /\ test_y' = Ys(pairs)
    /\ pc' = "pa2_pair_val"
    /\ UNCHANGED <<msVars, mcVars, train_doc, train_answer, test_doc, test_answer, val_doc,
                   val_answer, max_document_length, max_vocabulary_size, stem_test, train_answer_seq,
                   test_answer_seq, val_answer_seq, documents_full, train_x, train_y, test_x, val_x,
                   val_y, word_index, fit_calls, num_words, embeddings_index, embedding_matrix,
                   train_candidates, test_candidates, val_candidates, max_answer_length, train_q,
                   train_a, val_q, val_a, val_q_balanced, val_a_balanced, val_y_balanced, wrong_candidates>>

\* lines 276-282
pa2_pair_val ==
    /\ pc = "pa2_pair_val"
    /\ IF Truthy(val_doc) /\ Truthy(val_answer)
          THEN LET pairs == candidate_pairs(word_index, max_vocabulary_size, val_doc, val_candidates, val_answer, 1)
               IN /\ val_q' = Qs(pairs)
                  /\ val_a' = As(pairs)
                  /\ val_y' = Ys(pairs)
          ELSE UNCHANGED <<val_q, val_a, val_y>>
    /\ pc' = "pa2_pad"
    /\ UNCHANGED <<msVars, mcVars, train_doc, train_answer, test_doc, test_answer, val_doc,
                   val_answer, max_document_length, max_vocabulary_size, stem_test, train_answer_seq,
                   test_answer_seq, val_answer_seq, documents_full, train_x, train_y, test_x, test_y,
                   val_x, word_index, fit_calls, num_words, embeddings_index, embedding_matrix,
                   train_candidates, test_candidates, val_candidates, max_answer_length, train_q,
                   train_a, test_q, test_a, val_q_balanced, val_a_balanced, val_y_balanced, wrong_candidates>>

\* lines 284-315; max() of an empty list raises ValueError
pa2_pad ==
    /\ pc = "pa2_pad"
    /\ IF train_q = <<>> \/ test_q = <<>> \/ (Truthy(val_doc) /\ Truthy(val_answer) /\ val_q = <<>>)
          THEN /\ pc' = "pa2_ValueError"
               /\ UNCHANGED <<train_q, train_a, test_q, test_a, val_q, val_a, val_q_balanced, val_a_balanced>>
          ELSE /\ train_q' = pad_sequences(train_q, max_document_length)
               /\ train_a' = pad_sequences(train_a, max_answer_length)
               /\ test_q' = pad_sequences(test_q, max_document_length)
               /\ test_a' = pad_sequences(test_a, max_answer_length)
               /\ val_q' = IF Truthy(val_doc) /\ Truthy(val_answer) THEN pad_sequences(val_q, max_document_length) ELSE val_q
               /\ val_a' = IF Truthy(val_doc) /\ Truthy(val_answer) THEN pad_sequences(val_a, max_answer_length) ELSE val_a
               /\ val_q_balanced' = IF Truthy(val_doc) /\ Truthy(val_answer) THEN pad_sequences(val_q_balanced, max_document_length) ELSE val_q_balanced
               /\ val_a_balanced' = IF Truthy(val_doc) /\ Truthy(val_answer) THEN pad_sequences(val_a_balanced, max_answer_length) ELSE val_a_balanced
               /\ pc' = "pa2_embedding"
    /\ UNCHANGED <<msVars, mcVars, train_doc, train_answer, test_doc, test_answer, val_doc,
                   val_answer, max_document_length, max_vocabulary_size, stem_test, train_answer_seq,
                   test_answer_seq, val_answer_seq, documents_full, train_x, train_y, test_x, test_y,
                   val_x, val_y, word_index, fit_calls, num_words, embeddings_index,
                   embedding_matrix, train_candidates, test_candidates, val_candidates,
                   max_answer_length, val_y_balanced, wrong_candidates>>

\* lines 317-335
pa2_embedding ==
    /\ pc = "pa2_embedding"
    /\ \E S \in SUBSET Tokens : embeddings_index' = load_glove(S)
    /\ num_words' = num_words_of(max_vocabulary_size, word_index)
    /\ embedding_matrix' = build_embedding_matrix(word_index, embeddings_index', num_words')
    /\ pc' = IF rows_written(word_index, embeddings_index', num_words') \subseteq 0..(num_words' - 1) THEN "pa2_done" ELSE "pa2_IndexError"
    /\ UNCHANGED <<msVars, mcVars, train_doc, train_answer, test_doc, test_answer, val_doc,
                   val_answer, max_document_length, max_vocabulary_size, stem_test, train_answer_seq,
                   test_answer_seq, val_answer_seq, documents_full, train_x, train_y, test_x, test_y,
                   val_x, val_y, word_index, fit_calls, train_candidates, test_candidates,
                   val_candidates, max_answer_length, train_q, train_a, test_q, test_a, val_q, val_a,
                   val_q_balanced, val_a_balanced, val_y_balanced, wrong_candidates>>

NextPA == pa_collect \/ pa_fit \/ pa_pair_train \/ pa_pair_test \/ pa_pair_val \/ pa_pad \/ pa_embedding

NextPA2 == pa2_collect \/ pa2_fit \/ pa2_pair_train \/ pa2_sample_train \/ pa2_append_train \/ pa2_pair_val_balanced \/ pa2_sample_val \/ pa2_append_val \/ pa2_pair_test \/ pa2_pair_val \/ pa2_pad \/ pa2_embedding

\* the three preparation functions
InitPrep == InitPS \/ InitPA

NextPrep == NextPS \/ NextPA \/ NextPA2

SpecPrep == InitPrep /\ [][NextPrep]_vars

\* ------------------------------------------------------------------ claims
ValPresent == Truthy(val_doc) /\ Truthy(val_answer)

\* row is orig cut to its first n entries, or orig followed by zeros up to n
PaddedFrom(row, orig, n) == Len(row) = n /\ \A t \in 1..n : row[t] = (IF t <= Len(orig) THEN orig[t] ELSE 0)

Encoded(texts) == texts_to_sequences(word_index, max_vocabulary_size, texts)

TrainPadded == pc \in {"ps_categorical_train", "ps_pad_test", "ps_categorical_test", "ps_pad_val", "ps_categorical_val", "ps_embedding", "ps_done"}

TestPadded == pc \in {"ps_categorical_test", "ps_pad_val", "ps_categorical_val", "ps_embedding", "ps_done"}

ValPadded == ValPresent /\ pc \in {"ps_categorical_val", "ps_embedding", "ps_done"}

NumClasses(y) == Cardinality(DOMAIN y[1][1])

\* C7: the one-hot label tensors one call returns for the training, test and
\* validation splits all have the 3 classes of the model's output layer.
C7_SameClassCount ==
    pc = "ps_done" => /\ NumClasses(train_y) = NumModelClasses
                      /\ NumClasses(test_y) = NumModelClasses
                      /\ ValPresent => NumClasses(val_y) = NumModelClasses

Entries(rows) == {rows[i][t] : <<i, t>> \in {e \in (1..Len(rows)) \X (1..Len(rows[1])) : TRUE}}

\* C8: make_categorical(x) has the shape [len(x)][len(x[0])][max(x)+1], entry
\* [i][t][c] is 1 if c = x[i][t] and 0 otherwise, each position has exactly
\* one 1, and the arg-max over the last axis gives x back.
C8_OneHot ==
    pc = "mc_done" =>
        /\ Len(new_x) = Len(x)
        /\ \A i \in 1..Len(x) :
              /\ Len(new_x[i]) = Len(x[1])
              /\ \A t \in 1..Len(x[1]) :
                    /\ \E m \in Entries(x) : (\A e \in Entries(x) : e <= m) /\ DOMAIN new_x[i][t] = 0..m
                    /\ \A c \in DOMAIN new_x[i][t] : new_x[i][t][c] = (IF c = x[i][t] THEN 1 ELSE 0)
                    /\ Cardinality({c \in DOMAIN new_x[i][t] : new_x[i][t][c] = 1}) = 1
        /\ undo_sequential(new_x) = x

C8_Witness == pc = "mc_done" /\ x = <<(<<1, 2>>), <<0, 0>>>> /\ new_x[1][2][2] = 1 /\ new_x[2][2][0] = 1 /\ new_x[2][2][2] = 0

TokensOf(texts) == UNION {{texts[i][t] : t \in 1..Len(texts[i])} : i \in 1..Len(texts)}

SplitTokens == TokensOf(train_doc) \cup TokensOf(test_doc) \cup (IF ValPresent THEN TokensOf(val_doc) ELSE {})

\* some document or keyphrase has been converted to an index sequence
AnyEncoded == \E out \in {train_x, test_x, val_x, train_q, train_a, test_q, test_a, val_q, val_a, val_q_balanced, val_a_balanced} : out # <<>>

FitState ==
    /\ fit_calls <= 1
    /\ AnyEncoded => fit_calls = 1
    /\ fit_calls = 1 => DOMAIN word_index = SplitTokens

\* C9: in prepare_sequential, prepare_answer and prepare_answer_2 the
\* vocabulary is fitted exactly once, on the documents of the training, test
\* and (when given) validation splits together, before anything is converted
\* to an index sequence, and it is not changed after the fit.
C9_FitOnceBeforeEncoding == []FitState /\ [][fit_calls = 1 => (fit_calls' = 1 /\ word_index' = word_index)]_vars

C9_Witness == pc = "ps_done" /\ ValPresent /\ fit_calls = 1 /\ train_x # <<>> /\ val_x # <<>> /\ TokensOf(train_doc) = {"a"} /\ TokensOf(test_doc) = {"b"} /\ DOMAIN word_index = {"a", "b"}

\* C10: row 0 of the embedding matrix is all-zero, and so is the row of every
\* vocabulary word that has no pretrained vector; building never fails.
C10_ZeroRows ==
    pc = "ps_done" =>
        /\ DOMAIN embedding_matrix = 0..(num_words - 1)
        /\ embedding_matrix[0] = ZeroVector
        /\ \A word \in DOMAIN word_index : (word \notin DOMAIN embeddings_index /\ word_index[word] < num_words) => embedding_matrix[word_index[word]] = ZeroVector

C10_Witness == pc = "ps_done" /\ num_words = 3 /\ "a" \in DOMAIN embeddings_index /\ "b" \notin DOMAIN embeddings_index /\ word_index["b"] = 1 /\ embedding_matrix[1] = ZeroVector /\ embedding_matrix[2] # ZeroVector

\* C11: the embedding matrix has exactly num_words = min(max_vocabulary_size,
\* 1 + number of vocabulary words) rows; row i is the pretrained vector of the
\* vocabulary word of index i in 1..num_words-1 when it has one; a word of
\* index >= num_words is skipped, so no row outside 0..num_words-1 is written
\* and the build does not fail on such an index.
C11_MatrixRows ==
    /\ pc # "ps_IndexError"
    /\ pc = "ps_done" =>
          /\ num_words = Min(max_vocabulary_size, 1 + Cardinality(DOMAIN word_index))
          /\ DOMAIN embedding_matrix = 0..(num_words - 1)
          /\ \A word \in DOMAIN word_index :
                (word_index[word] \in 1..(num_words - 1) /\ word \in DOMAIN embeddings_index) => embedding_matrix[word_index[word]] = embeddings_index[word]
          /\ \A r \in DOMAIN embedding_matrix :
                embedding_matrix[r] # ZeroVector => \E word \in DOMAIN word_index : word_index[word] = r /\ r < num_words

C11_Witness == pc = "ps_done" /\ max_vocabulary_size = 2 /\ num_words = 2 /\ DOMAIN word_index = {"a", "b"} /\ word_index["b"] = 2 /\ DOMAIN embeddings_index = {"a", "b"} /\ embedding_matrix = (0 :> ZeroVector) @@ (1 :> Glove("a"))

SetOf(list) == {list[i] : i \in 1..Len(list)}

\* C12: the label sequence depends only on the document and the set of its
\* keyphrases: every list with the same keyphrases, in any order and with or
\* without repetitions, gives the same labels.
C12_OrderIndependent ==
    pc = "ms_done" => \A other \in AnswerLists : SetOf(other) = SetOf(answers_in) => make_sequential_doc(document, other) = doc_answers_seq

\* C13: make_sequential leaves its arguments as they were: the keyphrase
\* list of the caller holds the same keyphrases in the same order during and
\* after the call.
C13_InputsUnchanged == answers = answers_in

\* the position of the call in its loops: the keyphrase, the appearance and
\* the offset being processed
Rank == IF pc = "ms_sort" THEN <<0, 0, 0, 0, 0>>
        ELSE IF pc = "ms_done" THEN <<2, 0, 0, 0, 0>>
        ELSE <<1, k, IF pc = "ms_answer" THEN 0 ELSE 1, IF pc = "ms_answer" THEN 0 ELSE a, IF pc = "ms_mark" THEN 1 + w ELSE 0>>

LexLess(s, t) == \E i \in 1..Len(s) : s[i] < t[i] /\ \A j \in 1..(i - 1) : s[j] = t[j]

\* no appearance of any keyphrase is accepted
NothingAccepted == \A j \in 1..Len(answers_in) : \A idx \in 1..Len(document) : document[idx] = answers_in[j][1] => ~is_kp_at(document, answers_in[j], idx)

NoRaise ==
    /\ pc # "ms_IndexError"
    /\ pc # "ms_done" => ENABLED NextMS
    /\ pc \in {"ms_answer", "ms_idx", "ms_mark"} => k \in 1..(Len(answers) + 1)
    /\ pc \in {"ms_idx", "ms_mark"} => k <= Len(answers) /\ a \in 1..(Len(appearances) + 1)
    /\ (pc = "ms_idx" /\ a <= Len(appearances) /\ appearances[a] + Len(answers[k]) - 1 > Len(document)) => ~is_kp_at(document, answers[k], appearances[a])
    /\ pc = "ms_mark" => /\ a <= Len(appearances)
                         /\ w \in 0..(Len(answers[k]) - 1)
                         /\ appearances[a] + Len(answers[k]) - 1 <= Len(document)
    /\ (pc = "ms_done" /\ NothingAccepted) => doc_answers_seq = Zeros(Len(document))

\* C14: for every document, the empty one too, and every list of non-empty
\* keyphrases, make_sequential runs to its end without raising: every step
\* moves forward in the loops and some step is possible until the return; an
\* appearance whose keyphrase would pass the end of the document is
\* rejected, no label is written outside the document, and the labels are
\* all 0 when nothing is accepted.
C14_NoRaise == []NoRaise /\ [][LexLess(Rank, Rank')]_vars

C14_Witness == pc = "ms_done" /\ document = <<"b", "a">> /\ answers_in = <<(<<"a", "b">>), <<"a", "a", "b">>>> /\ doc_answers_seq = <<0, 0>>

\* an invalid configuration of prepare_sequential: a vocabulary cap below 1,
\* no document in any split, or only one of the two validation arguments
InvalidConfig ==
    \/ max_vocabulary_size < 1
    \/ train_doc = <<>> /\ test_doc = <<>> /\ val_doc = <<>>
    \/ Truthy(val_doc) # Truthy(val_answer)

\* no label sequence, vocabulary or tensor has been produced
NothingProcessed == train_answer_seq = <<>> /\ test_answer_seq = <<>> /\ val_answer_seq = <<>> /\ documents_full = <<>> /\ fit_calls = 0 /\ train_x = <<>> /\ test_x = <<>> /\ val_x = <<>>

\* C15: prepare_sequential rejects an invalid configuration with an error
\* raised before any label encoding, vocabulary fitting or padding: with
\* such a configuration nothing is ever processed and the call never returns
\* normally.
C15_FailFast == InvalidConfig => NothingProcessed /\ pc # "ps_done"

\* the pairs of the training document, and of the validation document, are
\* complete and not yet padded
TrainPaired == train_doc # <<>> /\ pc \in {"pa2_pair_val_balanced", "pa2_sample_val", "pa2_pair_test", "pa2_pair_val", "pa2_pad"}

ValPaired == ValPresent /\ pc \in {"pa2_pair_test", "pa2_pair_val", "pa2_pad"}

\* the loop steps and the whole-loop operator agree
SamplingAgrees ==
    /\ TrainPaired => \E pairs \in BalancedChoices(word_index, max_vocabulary_size, train_doc, train_candidates, train_answer) : train_q = Qs(pairs) /\ train_a = As(pairs) /\ train_y = Ys(pairs)
    /\ ValPaired => \E pairs \in BalancedChoices(word_index, max_vocabulary_size, val_doc, val_candidates, val_answer) : val_q_balanced = Qs(pairs) /\ val_a_balanced = As(pairs) /\ val_y_balanced = Ys(pairs)

\* the answers of the pairs labelled y, in the order of the pairs
RECURSIVE AnswersLabelled(_, _, _, _)
AnswersLabelled(as, ys, y, i) == IF i > Len(ys) THEN <<>> ELSE (IF ys[i] = y THEN <<as[i]>> ELSE <<>>) \o AnswersLabelled(as, ys, y, i + 1)

\* at most as many wrong pairs as gold answers, and one correct pair for
\* every gold answer
Balanced(as, ys, gold) ==
    /\ Len(AnswersLabelled(as, ys, <<1, 0>>, 1)) <= Len(gold)
    /\ AnswersLabelled(as, ys, <<0, 1>>, 1) = [j \in 1..Len(gold) |-> token_list_to_sequence(word_index, max_vocabulary_size, gold[j])]

SamplingState ==
    /\ pc = "pa2_sample_train" => ENABLED (pa2_sample_train \/ pa2_append_train)
    /\ pc = "pa2_sample_val" => ENABLED (pa2_sample_val \/ pa2_append_val)
    /\ TrainPaired => Balanced(train_a, train_y, train_answer[1])
    /\ ValPaired => Balanced(val_a_balanced, val_y_balanced, val_answer[1])

\* C16: in prepare_answer_2 the negative-sampling loop of a training or
\* balanced-validation document ends: every iteration shortens the list of
\* wrong candidates and the loop can always step or leave; afterwards the
\* document has at most as many pairs labelled wrong as gold answers, and
\* each gold answer is one pair labelled correct.
C16_SamplingEnds == []SamplingState /\ [][(pc \in {"pa2_sample_train", "pa2_sample_val"} /\ pc' = pc) => Len(wrong_candidates') < Len(wrong_candidates)]_vars

C16_Witness == pc = "pa2_pair_val_balanced" /\ train_candidates = <<(<<(<<"b">>), <<"a", "b">>>>)>> /\ train_answer = <<(<<(<<"a">>)>>)>> /\ Len(wrong_candidates) = 1 /\ Len(train_y) = 2

\* the documents the test labels are computed on
LabelledTestDoc == IF stem_test THEN stem_dataset(test_doc) ELSE test_doc

\* x and y of a returned split: one row per document, row i of x the padded
\* encoding of document i and row i of y the padded labels of document i
RowsOf(xs, ys, docs, labelled, answer_lists) ==
    /\ Len(xs) = Len(docs)
    /\ Len(ys) = Len(docs)
    /\ \A i \in 1..Len(docs) :
          /\ xs[i] = pad_sequences(<<Encoded(docs)[i]>>, max_document_length)[1]
          /\ undo_sequential(ys)[i] = pad_sequences(<<make_sequential_doc(labelled[i], answer_lists[i])>>, max_document_length)[1]

RowsState ==
    /\ test_answer_seq # <<>> => \A i \in 1..Len(test_doc) : Len(test_answer_seq[i]) = Len(test_doc[i])
    /\ pc = "ps_done" =>
          /\ RowsOf(train_x, train_y, train_doc, train_doc, train_answer)
          /\ RowsOf(test_x, test_y, test_doc, LabelledTestDoc, test_answer)
          /\ ValPresent => RowsOf(val_x, val_y, val_doc, val_doc, val_answer)

\* C17: for every split prepare_sequential returns, with stem_test False or
\* True, x and y have one row per document of the split and row i of both
\* comes from the same document; with stem_test the labels are computed on
\* the stemmed copy, have the length of the original test document, and the
\* caller's test_doc is not changed.
C17_RowsAligned == []RowsState /\ [][test_doc' = test_doc]_vars

C17_Witness == pc = "ps_done" /\ stem_test /\ Len(test_doc) = 2 /\ max_document_length = 2 /\ undo_sequential(test_y) = <<(<<1, 2>>), <<0, 0>>>> /\ test_doc[1] = <<"b", "a">>

\* the keyphrase applied last: the last listed of the longest ones
LastApplied(list) == LET longest == OfLen(list, MaxLenFrom(list, 1)) IN longest[Len(longest)]

\* the appearances of kp that are accepted
Accepted(doc, kp) == {idx \in 1..Len(doc) : doc[idx] = kp[1] /\ is_kp_at(doc, kp, idx)}

\* C18: keyphrases of equal token count are applied in the order of the
\* caller's list and the appearances of a keyphrase in ascending position, so
\* the labels of the keyphrase listed last among the longest are the ones
\* left: each accepted appearance of it still starts with 1 and the last one
\* reads 1, 2, .., 2; a second call on the sorted list gives the same labels.
C18_TieBreak ==
    /\ Allocated => /\ Sorted(answers)
                    /\ \A n \in 0..MaxLenFrom(answers_in, 1) : OfLen(answers, n) = OfLen(answers_in, n)
    /\ pc \in {"ms_idx", "ms_mark"} => \A i \in 1..Len(appearances) : \A j \in (i + 1)..Len(appearances) : appearances[i] < appearances[j]
    /\ (pc = "ms_done" /\ answers_in # <<>>) =>
          LET kp == LastApplied(answers_in) IN
          /\ kp = answers[Len(answers)]
          /\ \A idx \in Accepted(document, kp) :
                /\ doc_answers_seq[idx] = 1
                /\ (\A later \in Accepted(document, kp) : later <= idx) => \A i \in 1..(Len(kp) - 1) : doc_answers_seq[idx + i] = 2
    /\ pc = "ms_done" => sort_by_len(answers) = answers /\ make_sequential_doc(document, answers) = doc_answers_seq

C18_Witness == pc = "ms_done" /\ document = <<"a", "b", "a">> /\ answers_in = <<(<<"a", "b">>), <<"b", "a">>>> /\ doc_answers_seq = <<1, 1, 2>>

\* the wrong candidates the pairs of a document were appended from
WrongOf(as, ys, doc, answer_list) ==
    /\ as = As(balanced_pairs(word_index, max_vocabulary_size, doc, wrong_candidates, answer_list))
    /\ ys = Ys(balanced_pairs(word_index, max_vocabulary_size, doc, wrong_candidates, answer_list))

\* C19: in prepare_answer_2 no pair labelled wrong of the training set or of
\* the balanced validation set holds a keyphrase that is a gold answer of its
\* document, whatever the candidate list, one that repeats a keyphrase too.
C19_NoGoldInWrongPairs ==
    /\ (pc = "pa2_pair_val_balanced" /\ train_doc # <<>>) =>
          /\ WrongOf(train_a, train_y, train_doc[1], train_answer[1])
          /\ \A i \in 1..Len(wrong_candidates) : ~InList(wrong_candidates[i], train_answer[1])
    /\ (pc = "pa2_pair_test" /\ ValPresent) =>
          /\ WrongOf(val_a_balanced, val_y_balanced, val_doc[1], val_answer[1])
          /\ \A i \in 1..Len(wrong_candidates) : ~InList(wrong_candidates[i], val_answer[1])
====
